---- MODULE Spec2Model ----
(***************************************************************************)
(* Range compaction of the unic-gen table generator:                       *)
(*   CharMap::to_bsearch_table for BTreeMap<char, T>   (char_map.rs)       *)
(*   CharSet::to_bsearch_table for BTreeSet<char>      (char_set.rs)       *)
(* Each call is modelled step by step: the code before the loop, one loop  *)
(* iteration, the code after the loop.  The map call and the set call run  *)
(* on the same codepoints so that their results can be compared.           *)
(***************************************************************************)
EXTENDS Integers, Sequences, FiniteSets, TLC

\* ------------------------------------------------------------------ bounds
MaxSpan == 2    \* the low codepoints are FirstChar .. FirstChar + MaxSpan
MaxLen == 4     \* largest number of entries of a map or set
MaxFed == 3     \* longest entry sequence of the unordered feed (SpecFed)

\* --------------------------------------------------------------- the data
\* 'a', the first key of both unit tests.
FirstChar == 97

\* char::MAX, U+10FFFF: 17 planes of 2^16 codepoints.
CharMax == 17 * 65536 - 1

\* Codepoints around the two edges of the char type: U+D7FF and U+E000
\* (the scalar values next to the surrogate gap), U+10FFFE and U+10FFFF.
EdgeChars == {55295, 57344, CharMax - 1, CharMax}

LowChars == FirstChar .. (FirstChar + MaxSpan)

Chars == LowChars \cup EdgeChars

\* The property values of the unit test (T = &'static str).
Values == {"Low", "Mid"}

\* The value a `value` local holds before line 64 runs.
NoValue == "-"

\* ----------------------------------------------------- BTreeMap / BTreeSet
Min(S) == CHOOSE x \in S : \A y \in S : x <= y

\* BTreeSet<char>::iter(): the elements in ascending order.
RECURSIVE IterSet(_)
IterSet(S) == IF S = {} THEN <<>> ELSE <<Min(S)>> \o IterSet(S \ {Min(S)})

\* BTreeMap<char, T>::iter(): the (key, value) pairs in ascending key order.
IterMap(m) ==
    LET keys == IterSet(DOMAIN m)
    IN  [i \in 1 .. Len(keys) |-> [char |-> keys[i], property |-> m[keys[i]]]]

\* The keys an entry sequence yields, in its order.
Keys(entries) == [i \in 1 .. Len(entries) |-> entries[i].char]

\* ---------------------------------------------------------------- rendering
HexDigits == <<"0", "1", "2", "3", "4", "5", "6", "7",
               "8", "9", "a", "b", "c", "d", "e", "f">>

\* Lowercase hexadecimal without leading zeros.
RECURSIVE Hex(_)
Hex(n) == IF n < 16 THEN HexDigits[n + 1]
          ELSE Hex(n \div 16) \o HexDigits[(n % 16) + 1]

\* char::escape_unicode: \u{<hex>}.
EscapeUnicode(c) == "\\u{" \o Hex(c) \o "}"

\* The display_fn of to_bsearch_table_default: format!("{}", t) of a &str.
DisplayFn(t) == t

\* OutInit without the line break after the bracket.
OutInitNoNewline == "&["

\* String::from("&[\n"), the text both calls start from.
OutInit == "&[\n"

append_triple(str, a, b, c) ==
    str \o "    ('" \o EscapeUnicode(a) \o "', '" \o EscapeUnicode(b)
        \o "', " \o c \o "),\n"

append_duple(str, a, b) ==
    str \o "    ('" \o EscapeUnicode(a) \o "', '" \o EscapeUnicode(b) \o "'),\n"

\* The range an append_triple call writes.
Triple(a, b, c) == [low |-> a, high |-> b, value |-> c]

\* The range an append_duple call writes.
Duple(a, b) == [low |-> a, high |-> b]

\* ------------------------------------------------------------------- state
VARIABLES
    mEntries,   \* map call: what `entries` yields, first to last
    mPc,        \* map call: "start", "loop", "done" or "panicked"
    mIdx,       \* map call: number of entries taken from `entries`
    mLow, mHigh, mValue,    \* map call: the locals low, high, value
    mOut,       \* map call: the String `out`
    mTable,     \* map call: the ranges written to `out` so far
    sEntries, sPc, sIdx, sLow, sHigh, sOut, sTable   \* the same, set call

mVars == <<mEntries, mPc, mIdx, mLow, mHigh, mValue, mOut, mTable>>
sVars == <<sEntries, sPc, sIdx, sLow, sHigh, sOut, sTable>>
vars == <<mEntries, mPc, mIdx, mLow, mHigh, mValue, mOut, mTable,
          sEntries, sPc, sIdx, sLow, sHigh, sOut, sTable>>

\* The locals of both calls before either has run.
Fresh ==
    /\ mPc = "start" /\ mIdx = 0 /\ mLow = 0 /\ mHigh = 0 /\ mValue = NoValue
    /\ mOut = "" /\ mTable = <<>>
    /\ sPc = "start" /\ sIdx = 0 /\ sLow = 0 /\ sHigh = 0
    /\ sOut = "" /\ sTable = <<>>

\* A map of at most MaxLen chars and the set of its keys.
Init ==
    /\ \E S \in SUBSET Chars :
         /\ Cardinality(S) <= MaxLen
         /\ \E m \in [S -> Values] :
              /\ mEntries = IterMap(m)
              /\ sEntries = IterSet(S)
    /\ Fresh

\* --------------------------------------------------------------- map call
\* Line 68 with >= for >: an adjacent entry ends the range too.
MapBreakEager(char, property, high, value) ==
    property # value \/ char >= high + 1

\* Line 68 without the value test.
MapBreakGapOnly(char, property, high, value) ==
    char > high + 1

\* Line 68: the current range ends before this entry.
MapBreak(char, property, high, value) ==
    property # value \/ char > high + 1

\* Lines 56-65.
MapStart ==
    /\ mPc = "start"
    /\ IF Len(mEntries) = 0
       THEN /\ mOut' = OutInit \o "]"
            /\ mPc' = "done"
            /\ UNCHANGED <<mIdx, mLow, mHigh, mValue>>
       ELSE /\ mOut' = OutInit
            /\ mLow' = mEntries[1].char
            /\ mValue' = mEntries[1].property
            /\ mHigh' = mEntries[1].char
            /\ mIdx' = 1
            /\ mPc' = "loop"
    /\ UNCHANGED <<mEntries, mTable, sVars>>

\* Lines 67-77 without line 71: a new range keeps the old high.
MapStepStaleHigh ==
    /\ mPc = "loop"
    /\ mIdx < Len(mEntries)
    /\ LET char == mEntries[mIdx + 1].char
           property == mEntries[mIdx + 1].property
       IN  IF MapBreak(char, property, mHigh, mValue)
           THEN /\ mOut' = append_triple(mOut, mLow, mHigh, DisplayFn(mValue))
                /\ mTable' = Append(mTable, Triple(mLow, mHigh, mValue))
                /\ mLow' = char
                /\ mValue' = property
                /\ mIdx' = mIdx + 1
                /\ UNCHANGED <<mPc, mHigh>>
           ELSE IF char = mHigh + 1
                THEN /\ mHigh' = char
                     /\ mIdx' = mIdx + 1
                     /\ UNCHANGED <<mPc, mLow, mValue, mOut, mTable>>
                ELSE /\ mPc' = "panicked"
                     /\ UNCHANGED <<mIdx, mLow, mHigh, mValue, mOut, mTable>>
    /\ UNCHANGED <<mEntries, sVars>>

\* Lines 67-77 merging on equal value alone: no gap test in line 68 and no
\* assertion in line 74.
MapStepValueOnly ==
    /\ mPc = "loop"
    /\ mIdx < Len(mEntries)
    /\ LET char == mEntries[mIdx + 1].char
           property == mEntries[mIdx + 1].property
       IN  IF property # mValue
           THEN /\ mOut' = append_triple(mOut, mLow, mHigh, DisplayFn(mValue))
                /\ mTable' = Append(mTable, Triple(mLow, mHigh, mValue))
                /\ mLow' = char
                /\ mHigh' = char
                /\ mValue' = property
                /\ mIdx' = mIdx + 1
                /\ mPc' = "loop"
           ELSE /\ mHigh' = char
                /\ mIdx' = mIdx + 1
                /\ UNCHANGED <<mPc, mLow, mValue, mOut, mTable>>
    /\ UNCHANGED <<mEntries, sVars>>

\* Lines 67-77, one iteration.
MapStep ==
    /\ mPc = "loop"
    /\ mIdx < Len(mEntries)
    /\ LET char == mEntries[mIdx + 1].char
           property == mEntries[mIdx + 1].property
       IN  IF MapBreak(char, property, mHigh, mValue)
           THEN /\ mOut' = append_triple(mOut, mLow, mHigh, DisplayFn(mValue))
                /\ mTable' = Append(mTable, Triple(mLow, mHigh, mValue))
                /\ mLow' = char
                /\ mHigh' = char
                /\ mValue' = property
                /\ mIdx' = mIdx + 1
                /\ mPc' = "loop"
           ELSE IF char = mHigh + 1
                THEN /\ mHigh' = char
                     /\ mIdx' = mIdx + 1
                     /\ UNCHANGED <<mPc, mLow, mValue, mOut, mTable>>
                ELSE /\ mPc' = "panicked"
                     /\ UNCHANGED <<mIdx, mLow, mHigh, mValue, mOut, mTable>>
    /\ UNCHANGED <<mEntries, sVars>>

\* Lines 79-81 without line 79: the last range is not written.
MapFinishNoAppend ==
    /\ mPc = "loop"
    /\ mIdx = Len(mEntries)
    /\ mOut' = mOut \o "]"
    /\ mPc' = "done"
    /\ UNCHANGED <<mEntries, mIdx, mLow, mHigh, mValue, mTable, sVars>>

\* Lines 79-81.
MapFinish ==
    /\ mPc = "loop"
    /\ mIdx = Len(mEntries)
    /\ mOut' = append_triple(mOut, mLow, mHigh, DisplayFn(mValue)) \o "]"
    /\ mTable' = Append(mTable, Triple(mLow, mHigh, mValue))
    /\ mPc' = "done"
    /\ UNCHANGED <<mEntries, mIdx, mLow, mHigh, mValue, sVars>>

\* --------------------------------------------------------------- set call
\* Line 47 with >= for >: an adjacent char ends the range too.
SetBreakEager(char, high) == char >= high + 1

\* Line 47 with high + 2 for high + 1.
SetBreakWide(char, high) == char > high + 2

\* Line 47: the current range ends before this char.
SetBreak(char, high) == char > high + 1

\* Lines 35-44.
SetStart ==
    /\ sPc = "start"
    /\ IF Len(sEntries) = 0
       THEN /\ sOut' = OutInit \o "]"
            /\ sPc' = "done"
            /\ UNCHANGED <<sIdx, sLow, sHigh>>
       ELSE /\ sOut' = OutInit
            /\ sLow' = sEntries[1]
            /\ sHigh' = sEntries[1]
            /\ sIdx' = 1
            /\ sPc' = "loop"
    /\ UNCHANGED <<sEntries, sTable, mVars>>

\* Lines 46-55, one iteration.
SetStep ==
    /\ sPc = "loop"
    /\ sIdx < Len(sEntries)
    /\ LET char == sEntries[sIdx + 1]
       IN  IF SetBreak(char, sHigh)
           THEN /\ sOut' = append_duple(sOut, sLow, sHigh)
                /\ sTable' = Append(sTable, Duple(sLow, sHigh))
                /\ sLow' = char
                /\ sHigh' = char
                /\ sIdx' = sIdx + 1
                /\ sPc' = "loop"
           ELSE IF char = sHigh + 1
                THEN /\ sHigh' = char
                     /\ sIdx' = sIdx + 1
                     /\ UNCHANGED <<sPc, sLow, sOut, sTable>>
                ELSE /\ sPc' = "panicked"
                     /\ UNCHANGED <<sIdx, sLow, sHigh, sOut, sTable>>
    /\ UNCHANGED <<sEntries, mVars>>

\* Lines 57-59.
SetFinish ==
    /\ sPc = "loop"
    /\ sIdx = Len(sEntries)
    /\ sOut' = append_duple(sOut, sLow, sHigh) \o "]"
    /\ sTable' = Append(sTable, Duple(sLow, sHigh))
    /\ sPc' = "done"
    /\ UNCHANGED <<sEntries, sIdx, sLow, sHigh, mVars>>

\* ---------------------------------------------------------- specifications
Next ==
    \/ MapStart
    \/ MapStep
    \/ MapFinish
    \/ SetStart
    \/ SetStep
    \/ SetFinish

Spec == Init /\ [][Next]_vars

\* The scan loops driven by an entry sequence without the ordering a BTreeMap
\* or BTreeSet gives its iterator: any sequence of at most MaxFed entries,
\* keys repeated or descending included.  Only the fatal path is checked
\* under it.
InitFed ==
    /\ \E n \in 0 .. MaxFed :
         \E e \in [1 .. n -> [char : LowChars, property : Values]] :
              /\ mEntries = e
              /\ sEntries = Keys(e)
    /\ Fresh

SpecFed == InitFed /\ [][Next]_vars

\* ------------------------------------------------------ reading the tables
\* The entries a map range stands for, lowest codepoint first.
ExpandTriple(r) ==
    [i \in 1 .. (r.high - r.low + 1) |-> [char |-> r.low + i - 1, property |-> r.value]]

\* The codepoints a set range stands for, lowest first.
ExpandDuple(r) == [i \in 1 .. (r.high - r.low + 1) |-> r.low + i - 1]

RECURSIVE ExpandMap(_)
ExpandMap(table) ==
    IF table = <<>> THEN <<>>
    ELSE ExpandTriple(Head(table)) \o ExpandMap(Tail(table))

RECURSIVE ExpandSet(_)
ExpandSet(table) ==
    IF table = <<>> THEN <<>>
    ELSE ExpandDuple(Head(table)) \o ExpandSet(Tail(table))

\* The text of a returned map table: one line per range, in order.
RECURSIVE MapLines(_)
MapLines(table) ==
    IF table = <<>> THEN OutInit
    ELSE LET r == table[Len(table)]
         IN  append_triple(MapLines(SubSeq(table, 1, Len(table) - 1)),
                           r.low, r.high, DisplayFn(r.value))

\* The text of a returned set table.
RECURSIVE SetLines(_)
SetLines(table) ==
    IF table = <<>> THEN OutInit
    ELSE LET r == table[Len(table)]
         IN  append_duple(SetLines(SubSeq(table, 1, Len(table) - 1)), r.low, r.high)

\* Number of maximal runs of consecutive codepoints with equal value.
MapRuns(entries) ==
    IF Len(entries) = 0 THEN 0
    ELSE 1 + Cardinality({i \in 1 .. Len(entries) - 1 :
                 \/ entries[i + 1].char # entries[i].char + 1
                 \/ entries[i + 1].property # entries[i].property})

\* Number of maximal runs of consecutive codepoints.
SetRuns(chars) ==
    IF Len(chars) = 0 THEN 0
    ELSE 1 + Cardinality({i \in 1 .. Len(chars) - 1 : chars[i + 1] # chars[i] + 1})

\* Every codepoint of [low, high] is a key of entries, with this value.
MapCovered(entries, low, high, value) ==
    /\ high - low < Len(entries)
    /\ \A c \in low .. high :
         \E i \in 1 .. Len(entries) :
            entries[i].char = c /\ entries[i].property = value

\* Every codepoint of [low, high] is among chars.
SetCovered(chars, low, high) ==
    /\ high - low < Len(chars)
    /\ \A c \in low .. high : \E i \in 1 .. Len(chars) : chars[i] = c

\* A map table without its value column.
DropValue(table) == [j \in 1 .. Len(table) |-> Duple(table[j].low, table[j].high)]

\* Some codepoint of the sequence does not lie above the one before it.
OutOfOrder(chars) ==
    \E i \in 1 .. Len(chars) - 1 : chars[i + 1] <= chars[i]

BothDone == mPc = "done" /\ sPc = "done"

\* ------------------------------------------------------------------ claims
\* C1: once a call has returned, its text holds one line per range written
\* and nothing else, and expanding those ranges, in the order written, gives
\* back exactly the input entries in input order: nothing is added, dropped
\* or re-valued.
RoundTrip ==
    /\ mPc = "done" =>
         /\ mOut = MapLines(mTable) \o "]"
         /\ ExpandMap(mTable) = mEntries
    /\ sPc = "done" =>
         /\ sOut = SetLines(sTable) \o "]"
         /\ ExpandSet(sTable) = sEntries

RoundTripWitness ==
    /\ BothDone
    /\ Len(mEntries) = MaxLen
    /\ Len(mTable) >= 2
    /\ \E j \in 1 .. Len(mTable) : mTable[j].high > mTable[j].low
    /\ \E j \in 1 .. Len(sTable) : sTable[j].high > sTable[j].low

\* C2: in a returned table no two consecutive ranges could be merged (the
\* later one never starts right after the earlier one with the same value;
\* in the set variant never right after it), and the number of ranges is the
\* number of maximal runs of the input.
Minimality ==
    /\ mPc = "done" =>
         /\ \A j \in 1 .. Len(mTable) - 1 :
              ~ (/\ mTable[j + 1].low = mTable[j].high + 1
                 /\ mTable[j + 1].value = mTable[j].value)
         /\ Len(mTable) = MapRuns(mEntries)
    /\ sPc = "done" =>
         /\ \A j \in 1 .. Len(sTable) - 1 : sTable[j + 1].low # sTable[j].high + 1
         /\ Len(sTable) = SetRuns(sEntries)

MinimalityWitness ==
    /\ BothDone
    /\ Len(mTable) >= 2
    /\ Len(mTable) < Len(mEntries)
    /\ Len(sTable) >= 2
    /\ Len(sTable) < Len(sEntries)

\* C3: every range written has low <= high, and each range ends strictly
\* below the low of the range written after it.
BsearchFit ==
    /\ \A j \in 1 .. Len(mTable) : mTable[j].low <= mTable[j].high
    /\ \A j \in 1 .. Len(mTable) - 1 : mTable[j].high < mTable[j + 1].low
    /\ \A j \in 1 .. Len(sTable) : sTable[j].low <= sTable[j].high
    /\ \A j \in 1 .. Len(sTable) - 1 : sTable[j].high < sTable[j + 1].low

BsearchFitWitness ==
    /\ BothDone
    /\ Len(mTable) >= 3
    /\ Len(sTable) >= 3

\* C4 as stated: in both variants every range starts more than one above the
\* high of the range before it.
BoundaryGapStated ==
    /\ \A j \in 1 .. Len(mTable) - 1 : mTable[j + 1].low > mTable[j].high + 1
    /\ \A j \in 1 .. Len(sTable) - 1 : sTable[j + 1].low > sTable[j].high + 1

\* C4 amended: in the set variant every range starts more than one above the
\* high of the range before it; in the map variant every range starts above
\* the high of the range before it, and more than one above it whenever the
\* two ranges carry the same value.
BoundaryGap ==
    /\ \A j \in 1 .. Len(sTable) - 1 : sTable[j + 1].low > sTable[j].high + 1
    /\ \A j \in 1 .. Len(mTable) - 1 :
         /\ mTable[j + 1].low > mTable[j].high
         /\ mTable[j + 1].value = mTable[j].value
              => mTable[j + 1].low > mTable[j].high + 1

BoundaryGapWitness ==
    /\ BothDone
    /\ Len(sTable) >= 2
    /\ \E j \in 1 .. Len(mTable) - 1 :
         /\ mTable[j + 1].low = mTable[j].high + 1
         /\ mTable[j + 1].value # mTable[j].value
    /\ \E j \in 1 .. Len(mTable) - 1 :
         /\ mTable[j + 1].low > mTable[j].high + 1
         /\ mTable[j + 1].value = mTable[j].value

\* C5 as stated: a call on an empty map or set returns the text &[] with
\* nothing between the brackets.
EmptyInputStated ==
    /\ (mPc = "done" /\ Len(mEntries) = 0) => mOut = "&[]"
    /\ (sPc = "done" /\ Len(sEntries) = 0) => sOut = "&[]"

\* C5 amended: a call on an empty map or set returns the text "&[", a line
\* break, "]": no tuple entries, and exactly one line break between the
\* brackets.
EmptyInput ==
    /\ (mPc = "done" /\ Len(mEntries) = 0) => (mOut = "&[\n]" /\ mTable = <<>>)
    /\ (sPc = "done" /\ Len(sEntries) = 0) => (sOut = "&[\n]" /\ sTable = <<>>)

EmptyInputWitness ==
    /\ BothDone
    /\ Len(mEntries) = 0
    /\ Len(sEntries) = 0

GapNonMerge ==
    mPc = "done" =>
        \A i \in 1 .. Len(mEntries) - 1 :
            mEntries[i + 1].char > mEntries[i].char + 1 =>
                \E j \in 1 .. Len(mTable) - 1 :
                    /\ mTable[j].high = mEntries[i].char
                    /\ mTable[j + 1].low = mEntries[i + 1].char

GapNonMergeWitness ==
    /\ mPc = "done"
    /\ \E i \in 1 .. Len(mEntries) - 1 :
         /\ mEntries[i + 1].char > mEntries[i].char + 1
         /\ mEntries[i + 1].property = mEntries[i].property
    /\ \E i \in 1 .. Len(mEntries) - 1 :
         /\ mEntries[i + 1].char = mEntries[i].char + 1
         /\ mEntries[i + 1].property = mEntries[i].property

\* C8: while a scan is in its loop the range in progress has low <= high,
\* its high is the codepoint of the entry taken last, and every codepoint of
\* [low, high] is in the input with the range's value (set: is in the
\* input); every range written satisfies the same.
RangeInvariant ==
    /\ mPc = "loop" =>
         /\ mLow <= mHigh
         /\ mHigh = mEntries[mIdx].char
         /\ MapCovered(mEntries, mLow, mHigh, mValue)
    /\ \A j \in 1 .. Len(mTable) :
         /\ mTable[j].low <= mTable[j].high
         /\ MapCovered(mEntries, mTable[j].low, mTable[j].high, mTable[j].value)
    /\ sPc = "loop" =>
         /\ sLow <= sHigh
         /\ sHigh = sEntries[sIdx]
         /\ SetCovered(sEntries, sLow, sHigh)
    /\ \A j \in 1 .. Len(sTable) :
         /\ sTable[j].low <= sTable[j].high
         /\ SetCovered(sEntries, sTable[j].low, sTable[j].high)

RangeInvariantWitness ==
    /\ mPc = "loop"
    /\ sPc = "loop"
    /\ mHigh > mLow
    /\ sHigh > sLow
    /\ Len(mTable) >= 1
    /\ Len(sTable) >= 1

\* C9: on a map or set of chars neither scan ever fails its assertion, high
\* never exceeds char::MAX (so high + 1 stays far below 2^32), and a call
\* that has not returned can always take its next step.
NoAbort ==
    /\ mPc # "panicked"
    /\ sPc # "panicked"
    /\ mHigh <= CharMax
    /\ sHigh <= CharMax
    /\ mPc # "done" => ENABLED (MapStart \/ MapStep \/ MapFinish)
    /\ sPc # "done" => ENABLED (SetStart \/ SetStep \/ SetFinish)

\* Both calls returned on an input with U+D7FF, U+E000 and U+10FFFF.
NoAbortWitness ==
    /\ BothDone
    /\ {55295, 57344, CharMax} \subseteq {sEntries[i] : i \in 1 .. Len(sEntries)}
    /\ mHigh = CharMax
    /\ sHigh = CharMax

\* C10: when the map gives every key one and the same value, the set call on
\* its keys writes exactly the ranges of the map call without their value.
VariantEquivalence ==
    (/\ BothDone
     /\ \A i, k \in 1 .. Len(mEntries) : mEntries[i].property = mEntries[k].property)
        => sTable = DropValue(mTable)

VariantEquivalenceWitness ==
    /\ BothDone
    /\ \A i, k \in 1 .. Len(mEntries) : mEntries[i].property = mEntries[k].property
    /\ Len(mEntries) = MaxLen
    /\ Len(sTable) = 2
    /\ sTable = DropValue(mTable)

====
